---------------------------- MODULE Spec2Model ----------------------------
(***************************************************************************)
(* A model of src/main.py: the level-grid transform (convert_map_tokens,   *)
(* find_mario_start, generate_map), the trace analysis (parse_coordinates, *)
(* parse_result), the per-level evaluator (check_level_completion) and the *)
(* batch loop (analyze_levels).                                            *)
(*                                                                         *)
(* Text is modelled as a sequence of one-character strings, so that        *)
(* slicing, stripping, splitting and substring search are computed         *)
(* character by character as Python computes them.  A grid is a sequence   *)
(* of rows, a row a sequence of one-character tile symbols.  Row and       *)
(* column numbers are 0-based as in the source; TLA+ sequences are 1-based,*)
(* hence the +1 where a sequence is indexed.                               *)
(***************************************************************************)
EXTENDS Integers, Sequences, FiniteSets, TLC

VARIABLES
    pc,                     \* position of the running function
    \* ---- the level-grid transform
    level_data,             \* the grid under evaluation (row['level'], line 244)
    converted,              \* value returned by convert_map_tokens
    mario_start,            \* value returned by find_mario_start (line 78)
    map_data,               \* generate_map's map_data when it is written (line 86)
    file,                   \* the map file: whether it was written, and its text (line 90)
    \* ---- the trace analysis
    raw_output,             \* the text handed to parse_coordinates / parse_result
    mario_path,             \* outcome of parse_coordinates: raised error, or path
    completion_status,      \* value returned by parse_result (line 217)
    \* ---- the evaluator and the batch loop
    df,                     \* the 'level' column of the dataset, one entry per row
    has_level_column,       \* 'level' in df.columns (line 236)
    index,                  \* number of rows df.iterrows() has delivered and finished
    completed_count,        \* line 240
    total_count,            \* line 241
    verdicts,               \* history: value returned by check_level_completion per row
    attempt,                \* loop variable of line 210
    max_attempts,           \* MAX_ATTEMPTS of line 209
    output,                 \* value returned by run_mario_ai (line 212)
    calls,                  \* history: run_mario_ai invocations for the current level
    error,                  \* the exception that left analyze_levels, "None" if none
    completion_percentage   \* line 251, the double m * 2^e

gridVars == <<level_data, converted, mario_start, map_data, file>>
traceVars == <<raw_output, mario_path, completion_status>>
batchVars == <<df, has_level_column, index, completed_count, total_count, verdicts,
               attempt, max_attempts, output, calls, error, completion_percentage>>
vars == <<pc, gridVars, traceVars, batchVars>>

\* Python's None where the other values are strings
None == "None"
\* find_mario_start's None (line 65).  A (row, col) pair is a tuple, so None is
\* modelled as the empty tuple: it is falsy at line 79 and equals no pair.
NoPlacement == << >>
\* find_mario_start left by the IndexError of map_data[row][col] (line 63)
IndexError == <<"IndexError">>
NL == "\n"

(***************************************************************************)
(* Bounds of the model.                                                    *)
(***************************************************************************)
MaxRows == 2
MaxCols == 2
MaxLines == 5
MaxResultLines == 4
MaxLevels == 4
MaxRetryLevels == 2
MaxAttempts == 3

(***************************************************************************)
(* TOKEN_MAPPING, lines 12-42, entry by entry.                             *)
(***************************************************************************)
TOKEN_MAPPING ==
    ("-" :> "-") @@ ("o" :> "o") @@ ("X" :> "X") @@ ("#" :> "#") @@
    ("S" :> "S") @@ ("C" :> "C") @@ ("U" :> "U") @@ ("?" :> "?") @@
    ("!" :> "Q") @@ ("1" :> "1") @@ ("2" :> "2") @@ ("g" :> "g") @@
    ("G" :> "G") @@ ("k" :> "k") @@ ("K" :> "K") @@ ("r" :> "r") @@
    ("R" :> "R") @@ ("y" :> "y") @@ ("B" :> "B") @@ ("b" :> "b") @@
    ("<" :> "<") @@ (">" :> ">") @@ ("(" :> "T") @@ (")" :> "T") @@
    ("[" :> "[") @@ ("]" :> "]") @@ ("x" :> "S") @@ ("Y" :> "Y") @@
    ("N" :> "-")

\* A default of open space instead of the character itself.
TokenGet_default_sky(char) ==
    IF char \in DOMAIN TOKEN_MAPPING THEN TOKEN_MAPPING[char] ELSE "-"

\* TOKEN_MAPPING.get(char, char), line 47
TokenGet(char) ==
    IF char \in DOMAIN TOKEN_MAPPING THEN TOKEN_MAPPING[char] ELSE char

\* convert_map_tokens, lines 44-49: every line re-joined from its mapped chars
convert_map_tokens(grid) ==
    [i \in 1..Len(grid) |-> [j \in 1..Len(grid[i]) |-> TokenGet(grid[i][j])]]

(***************************************************************************)
(* find_mario_start, lines 52-65.  The two nested loops are unfolded into  *)
(* a recursion over (col, row) in the order the loops visit the cells.  On *)
(* a grid whose rows differ in length the read of line 63 may fall outside *)
(* a row, which raises IndexError.                                         *)
(***************************************************************************)
\* rows, line 58
RowCount(grid) == Len(grid)
\* cols, line 59
ColCount(grid) == IF Len(grid) > 0 THEN Len(grid[1]) ELSE 0

\* lines 61-65, from the point where the loops stand at (col, row)
RECURSIVE ScanFrom(_, _, _)
ScanFrom(grid, col, row) ==
    IF col >= ColCount(grid) THEN NoPlacement
    ELSE IF row < 0 THEN ScanFrom(grid, col + 1, RowCount(grid) - 1)
    ELSE IF col >= Len(grid[row + 1]) THEN IndexError
    ELSE IF grid[row + 1][col + 1] = "-" THEN <<row, col>>
    ELSE ScanFrom(grid, col, row - 1)

\* The same scan with the inner loop running from the top row down.
RECURSIVE ScanTopDown(_, _, _)
ScanTopDown(grid, col, row) ==
    IF col >= ColCount(grid) THEN NoPlacement
    ELSE IF row >= RowCount(grid) THEN ScanTopDown(grid, col + 1, 0)
    ELSE IF col >= Len(grid[row + 1]) THEN IndexError
    ELSE IF grid[row + 1][col + 1] = "-" THEN <<row, col>>
    ELSE ScanTopDown(grid, col, row + 1)

find_mario_start_topdown(grid) == ScanTopDown(grid, 0, 0)

find_mario_start(grid) == ScanFrom(grid, 0, RowCount(grid) - 1)

(***************************************************************************)
(* generate_map, lines 68-93.  The grid is the value ast.literal_eval      *)
(* returns (line 75).                                                      *)
(***************************************************************************)
\* Line 81 with the slice [col:] in place of [col + 1:].
PlaceMario_keep_cell(grid, start) ==
    LET row == start[1]
        col == start[2]
        line == grid[row + 1]
    IN [grid EXCEPT ![row + 1] =
            SubSeq(line, 1, col) \o <<"M">> \o SubSeq(line, col + 1, Len(line))]

\* line 81: map_data[row][:col] + "M" + map_data[row][col + 1:]
PlaceMario(grid, start) ==
    LET row == start[1]
        col == start[2]
        line == grid[row + 1]
    IN [grid EXCEPT ![row + 1] =
            SubSeq(line, 1, col) \o <<"M">> \o SubSeq(line, col + 2, Len(line))]

\* lines 78-86: locate on the grid as read, insert the marker, then convert
\* (for a grid on which find_mario_start returns)
generate_map_rows(grid) ==
    LET start == find_mario_start(grid)
    IN convert_map_tokens(IF start # NoPlacement THEN PlaceMario(grid, start)
                                                 ELSE grid)

\* "\n".join(map_data), line 90
RECURSIVE Join(_, _)
Join(lines, sep) ==
    IF lines = <<>> THEN <<>>
    ELSE IF Len(lines) = 1 THEN lines[1]
    ELSE lines[1] \o <<sep>> \o Join(Tail(lines), sep)

\* the text written at line 90
FileText(rows) == Join(rows, NL) \o <<NL>>

\* A character no text file encoding accepts: a lone surrogate, which a
\* literal holds as the escape \udc80.  It is one symbol of a row.
LoneSurrogate == "\\udc80"

\* file.write(text) raises UnicodeEncodeError, line 90
Unencodable(text) == \E i \in 1..Len(text) : text[i] = LoneSurrogate

\* the map file before any open(): it does not exist
NotWritten == [written |-> FALSE, text |-> << >>]

(***************************************************************************)
(* String operations of Python used by the trace analysis, computed on     *)
(* character sequences.                                                    *)
(***************************************************************************)
\* The control characters that have no escape in a string are written as they
\* are: vertical tab (0B), the separators FS, GS, RS, US (1C-1F), next line
\* (85), no-break space (A0) and the ogham space mark (1680).
VT == ""
FS == ""
GS == ""
RS == ""
US == ""
NEL == ""
NBSP == " "
OghamSpace == " "

\* The characters str.strip() removes (lines 176, 180): those with
\* str.isspace().  The spaces from U+2000 on (U+2000-200A, 2028, 2029, 202F,
\* 205F, 3000) are removed too and cannot be written in a module.
Whitespace ==
    {" ", "\t", NL, VT, "\f", "\r", FS, GS, RS, US, NEL, NBSP, OghamSpace}

\* The characters int() drops around the number (line 184): the ASCII
\* whitespace of C, without the separators 1C-1F, and the spaces outside
\* ASCII.
IntWhitespace == {" ", "\t", NL, VT, "\f", "\r", NEL, NBSP, OghamSpace}

\* The line boundaries of str.splitlines() (line 175); U+2028 and U+2029 are
\* boundaries too and cannot be written in a module.
LineBreaks == {NL, "\r", VT, "\f", FS, GS, RS, NEL}

RECURSIVE LStrip(_, _)
LStrip(s, chars) ==
    IF s # << >> /\ Head(s) \in chars THEN LStrip(Tail(s), chars) ELSE s

RECURSIVE RStrip(_, _)
RStrip(s, chars) ==
    IF s # << >> /\ s[Len(s)] \in chars
    THEN RStrip(SubSeq(s, 1, Len(s) - 1), chars) ELSE s

\* str.strip(chars): leading and trailing characters of the set removed
StripChars(s, chars) == RStrip(LStrip(s, chars), chars)

\* str.strip()
Strip(s) == StripChars(s, Whitespace)

\* str.find(sub) + 1: the first position where sub occurs in s, 0 if nowhere
IndexOf(s, sub) ==
    LET hits == {i \in 1..(Len(s) - Len(sub) + 1) :
                    SubSeq(s, i, i + Len(sub) - 1) = sub}
    IN IF hits = {} THEN 0 ELSE CHOOSE i \in hits : \A j \in hits : i <= j

\* sub in s
Contains(s, sub) == IndexOf(s, sub) # 0

\* str.split(sep): cut at every occurrence of sep, left to right
RECURSIVE Split(_, _)
Split(s, sep) ==
    LET i == IndexOf(s, sep)
    IN IF i = 0 THEN <<s>>
       ELSE <<SubSeq(s, 1, i - 1)>> \o Split(SubSeq(s, i + Len(sep), Len(s)), sep)

\* the first position of s holding a character of the set, 0 if there is none
IndexOfAny(s, chars) ==
    LET hits == {i \in 1..Len(s) : s[i] \in chars}
    IN IF hits = {} THEN 0 ELSE CHOOSE i \in hits : \A j \in hits : i <= j

\* str.splitlines(): cut at every line break, "\r\n" being one break, no
\* empty last line
RECURSIVE SplitLines(_)
SplitLines(s) ==
    LET i == IndexOfAny(s, LineBreaks)
        crlf == i # 0 /\ i < Len(s) /\ s[i] = "\r" /\ s[i + 1] = NL
        next == IF crlf THEN i + 2 ELSE i + 1
    IN IF s = << >> THEN << >>
       ELSE IF i = 0 THEN <<s>>
       ELSE <<SubSeq(s, 1, i - 1)>> \o SplitLines(SubSeq(s, next, Len(s)))

\* The decimal digits int() reads (line 184), by value: DecimalDigits[v + 1]
\* holds the digits of value v, the ASCII digit first, then the digit of
\* every script whose digits can be written in a module (Extended
\* Arabic-Indic, NKo, Bengali, Gujarati, Tamil, Kannada, Sinhala, Lao,
\* Myanmar Shan, Khmer, New Tai Lue, Tai Tham, Sundanese, Saurashtra,
\* Javanese, Myanmar Tai Laing, Meetei Mayek).  int() reads the digits of the
\* remaining scripts (Arabic-Indic, Devanagari, Thai, fullwidth, ...) alike;
\* a string of a module cannot hold them.
DecimalDigits == <<
    {"0", "۰", "߀", "০", "૦", "௦", "೦", "෦", "໐", "႐", "០", "᧐", "᪀", "᪐", "᮰", "꣐", "꧐", "꧰", "꯰"},
    {"1", "۱", "߁", "১", "૧", "௧", "೧", "෧", "໑", "႑", "១", "᧑", "᪁", "᪑", "᮱", "꣑", "꧑", "꧱", "꯱"},
    {"2", "۲", "߂", "২", "૨", "௨", "೨", "෨", "໒", "႒", "២", "᧒", "᪂", "᪒", "᮲", "꣒", "꧒", "꧲", "꯲"},
    {"3", "۳", "߃", "৩", "૩", "௩", "೩", "෩", "໓", "႓", "៣", "᧓", "᪃", "᪓", "᮳", "꣓", "꧓", "꧳", "꯳"},
    {"4", "۴", "߄", "৪", "૪", "௪", "೪", "෪", "໔", "႔", "៤", "᧔", "᪄", "᪔", "᮴", "꣔", "꧔", "꧴", "꯴"},
    {"5", "۵", "߅", "৫", "૫", "௫", "೫", "෫", "໕", "႕", "៥", "᧕", "᪅", "᪕", "᮵", "꣕", "꧕", "꧵", "꯵"},
    {"6", "۶", "߆", "৬", "૬", "௬", "೬", "෬", "໖", "႖", "៦", "᧖", "᪆", "᪖", "᮶", "꣖", "꧖", "꧶", "꯶"},
    {"7", "۷", "߇", "৭", "૭", "௭", "೭", "෭", "໗", "႗", "៧", "᧗", "᪇", "᪗", "᮷", "꣗", "꧗", "꧷", "꯷"},
    {"8", "۸", "߈", "৮", "૮", "௮", "೮", "෮", "໘", "႘", "៨", "᧘", "᪈", "᪘", "᮸", "꣘", "꧘", "꧸", "꯸"},
    {"9", "۹", "߉", "৯", "૯", "௯", "೯", "෯", "໙", "႙", "៩", "᧙", "᪉", "᪙", "᮹", "꣙", "꧙", "꧹", "꯹"} >>

DigitValue ==
    [c \in UNION {DecimalDigits[v] : v \in 1..10} |->
        (CHOOSE v \in 1..10 : c \in DecimalDigits[v]) - 1]

\* What int() reads: surrounding whitespace dropped, then an optional sign
IntSign(s) ==
    LET t == StripChars(s, IntWhitespace) IN IF t # << >> /\ Head(t) = "-" THEN -1 ELSE 1

IntDigits(s) ==
    LET t == StripChars(s, IntWhitespace)
    IN IF t # << >> /\ Head(t) \in {"+", "-"} THEN Tail(t) ELSE t

\* int(s) succeeds: after the sign, digits, with single underscores allowed
\* between two digits
IsInt(s) ==
    LET ds == IntDigits(s)
    IN /\ ds # << >>
       /\ ds[1] \in DOMAIN DigitValue
       /\ ds[Len(ds)] \in DOMAIN DigitValue
       /\ \A i \in 1..Len(ds) : ds[i] \in DOMAIN DigitValue \cup {"_"}
       /\ \A i \in 1..(Len(ds) - 1) : ~(ds[i] = "_" /\ ds[i + 1] = "_")

RECURSIVE DigitsValue(_, _)
DigitsValue(ds, acc) ==
    IF ds = << >> THEN acc
    ELSE IF Head(ds) = "_" THEN DigitsValue(Tail(ds), acc)
    ELSE DigitsValue(Tail(ds), 10 * acc + DigitValue[Head(ds)])

\* int(s), for s with IsInt(s)
IntOf(s) == IntSign(s) * DigitsValue(IntDigits(s), 0)

(***************************************************************************)
(* parse_coordinates, lines 170-188.  The for loop is unfolded into a      *)
(* recursion over the lines carrying path_start and mario_path; the value  *)
(* is the returned path, or the ValueError that int() raises at line 184.  *)
(***************************************************************************)
MarioPathMarker == <<"M", "a", "r", "i", "o", " ", "P", "a", "t", "h", ":">>
CommaSpace == <<",", " ">>

Returned(path) == [raised |-> None, path |-> path]
Raised(e) == [raised |-> e, path |-> << >>]

\* line 182
Coordinates(line) == Split(StripChars(line, {"[", "]"}), CommaSpace)

\* lines 175-188, from line number i of the output on
RECURSIVE ParseLines(_, _, _, _)
ParseLines(lines, i, path_start, path) ==
    IF i > Len(lines) THEN Returned(path)
    ELSE IF Strip(lines[i]) = MarioPathMarker
         THEN ParseLines(lines, i + 1, TRUE, path)
    ELSE IF ~path_start THEN ParseLines(lines, i + 1, path_start, path)
    ELSE IF Strip(lines[i]) = << >> THEN Returned(path)
    ELSE LET coordinates == Coordinates(lines[i])
         IN IF Len(coordinates) # 2
            THEN ParseLines(lines, i + 1, path_start, path)
            ELSE IF \E k \in 1..2 : ~IsInt(coordinates[k])
            THEN Raised("ValueError")
            ELSE ParseLines(lines, i + 1, path_start,
                     Append(path, <<IntOf(coordinates[1]), IntOf(coordinates[2])>>))

parse_coordinates(text) == ParseLines(SplitLines(text), 1, FALSE, << >>)

(***************************************************************************)
(* parse_result, lines 190-202.  True, False and None are the strings      *)
(* "True", "False" and "None".                                             *)
(***************************************************************************)
WIN == <<"W", "I", "N">>
LOSE == <<"L", "O", "S", "E">>

\* The two tests of lines 194 and 197 in the opposite order.
parse_result_lose_first(text) ==
    IF Contains(text, LOSE) THEN "False"
    ELSE IF Contains(text, WIN) THEN "True"
    ELSE None

parse_result(text) ==
    IF Contains(text, WIN) THEN "True"
    ELSE IF Contains(text, LOSE) THEN "False"
    ELSE None

(***************************************************************************)
(* check_level_completion, lines 204-230, and analyze_levels, 232-253.     *)
(***************************************************************************)
\* line 209
MAX_ATTEMPTS == 1

\* A cell of the 'level' column, by what generate_map does with it.
\* Level(grid) is the text of a literal of a list of strings, kept as the grid
\* the literal denotes.  Immutable(grid) is a literal that find_mario_start
\* and convert_map_tokens read as the same grid and in which line 81 cannot
\* replace a row (TypeError): a tuple of strings, a list of lists of
\* one-character strings, or a string, whose characters are rows of one
\* column.  The other cells are kept by the exception they end in: a text
\* ast.literal_eval does not parse (SyntaxError, line 75), a text it parses
\* and rejects (ValueError), a text nested too deeply (RecursionError), a
\* literal of a value without len() or whose first row has none, such as 5 or
\* [1, 2] (TypeError, lines 58-59), and a dict without the key 0 (KeyError,
\* line 59).
Level(grid) == [raises |-> None, value |-> grid, mutable |-> TRUE]
Immutable(grid) == [raises |-> None, value |-> grid, mutable |-> FALSE]
BadCell(e) == [raises |-> e, value |-> << >>, mutable |-> FALSE]
BadCells ==
    {BadCell("SyntaxError"), BadCell("ValueError"), BadCell("RecursionError"),
     BadCell("TypeError"), BadCell("KeyError")}

\* ast.literal_eval, line 75, on a cell it accepts: the value, as the grid
\* lines 58-63 and 46-48 read it as
ast_literal_eval(cell) == cell.value

\* run_mario_ai, lines 97-168: None (lines 111, 132, 159, 165, 168) or the
\* captured standard output (line 161)
GatewayNone == [none |-> TRUE, text |-> << >>]
GatewayText(t) == [none |-> FALSE, text |-> t]

\* Lines 222-223 ending the level: a LOSE returns False without a retry.
AttemptVerdict_no_retry_after_lose(out, att, max) ==
    IF ~out.none /\ parse_result(out.text) = "True" THEN "True"
    ELSE IF ~out.none /\ parse_result(out.text) = "False" THEN "False"
    ELSE IF att = max THEN "False"
    ELSE "retry"

\* lines 214-228: what one pass of the loop body decides
AttemptVerdict(out, att, max) ==
    IF ~out.none /\ parse_result(out.text) = "True" THEN "True"
    ELSE IF att = max THEN "False"
    ELSE "retry"

(***************************************************************************)
(* Line 251 in binary floating point.  A natural number is a sequence of   *)
(* bits, least significant first, without leading zero bits; a double is   *)
(* m * 2^e with m of 53 bits, or zero.  Division and multiplication round  *)
(* to the nearest double, ties to the even mantissa, as IEEE 754 does.     *)
(***************************************************************************)
NatBits(n) ==
    LET len == CHOOSE k \in 0..30 : n < 2^k /\ (k = 0 \/ n >= 2^(k - 1))
    IN [i \in 1..len |-> (n \div 2^(i - 1)) % 2]

\* a + b + carry: the carry into a position comes from a lower position where
\* both bits are 1, or from the carry given, through positions holding a 1
AddBits(a, b, carry) ==
    LET n == IF Len(a) > Len(b) THEN Len(a) ELSE Len(b)
        Both(i) == (IF i <= Len(a) THEN a[i] ELSE 0)
                   + (IF i <= Len(b) THEN b[i] ELSE 0)
        CarryInto(i) ==
            IF \/ \E j \in 1..(i - 1) :
                    Both(j) = 2 /\ \A k \in (j + 1)..(i - 1) : Both(k) >= 1
               \/ carry = 1 /\ \A k \in 1..(i - 1) : Both(k) >= 1
            THEN 1 ELSE 0
        sum == [i \in 1..(n + 1) |-> (Both(i) + CarryInto(i)) % 2]
    IN IF sum[n + 1] = 1 THEN sum ELSE SubSeq(sum, 1, n)

\* a * 2^k
ShiftBits(a, k) == IF a = << >> THEN a ELSE [i \in 1..k |-> 0] \o a

\* a * n for a small n
RECURSIVE MulBits(_, _)
MulBits(a, n) ==
    IF n = 0 THEN << >>
    ELSE AddBits(IF n % 2 = 1 THEN a ELSE << >>,
                 ShiftBits(MulBits(a, n \div 2), 1), 0)

\* a <= b
LeqBits(a, b) ==
    \/ Len(a) < Len(b)
    \/ /\ Len(a) = Len(b)
       /\ \A i \in 1..Len(a) :
              (a[i] > b[i]) => \E j \in (i + 1)..Len(a) : a[j] < b[j]

FloatZero == [m |-> << >>, e |-> 0]

\* a 53-bit mantissa plus one: a carry out of the top bit moves the exponent
MantissaUp(m) ==
    LET a == AddBits(m, <<1>>, 0)
    IN IF Len(a) > Len(m) THEN [m |-> Tail(a), carry |-> 1]
                          ELSE [m |-> a, carry |-> 0]

\* the first 1 bit of the binary expansion of r / t * 2^-p, for 0 < r <= t
RECURSIVE LeadBit(_, _, _)
LeadBit(r, t, p) ==
    IF r >= t THEN [p |-> p, r |-> r - t] ELSE LeadBit(2 * r, t, p + 1)

\* the next n bits of the expansion, most significant first, and the
\* remainder; the bits are produced 13 at a time by an integer division
RECURSIVE FracBits(_, _, _)
FracBits(r, t, n) ==
    IF n = 0 THEN [bits |-> << >>, r |-> r]
    ELSE LET c == IF n < 13 THEN n ELSE 13
             q == (r * 2^c) \div t
             rest == FracBits((r * 2^c) % t, t, n - c)
         IN [bits |-> [i \in 1..c |-> (q \div 2^(c - i)) % 2] \o rest.bits,
             r |-> rest.r]

ReverseBits(b) == [i \in 1..Len(b) |-> b[Len(b) + 1 - i]]

\* completed / total of two ints, 0 < completed <= total: the nearest double
FloatDiv(c, t) ==
    LET lead == LeadBit(c, t, 0)
        frac == FracBits(lead.r, t, 52)
        m == ReverseBits(<<1>> \o frac.bits)
        up == 2 * frac.r > t \/ (2 * frac.r = t /\ m[1] = 1)
        mu == MantissaUp(m)
    IN IF up THEN [m |-> mu.m, e |-> mu.carry - (lead.p + 52)]
             ELSE [m |-> m, e |-> -(lead.p + 52)]

\* x * k for a double x and a small integer k: the nearest double
FloatMul(x, k) ==
    LET prod == MulBits(x.m, k)
        d == Len(prod) - 53
        kept == SubSeq(prod, d + 1, Len(prod))
        half == d > 0 /\ prod[d] = 1
        sticky == \E i \in 1..(d - 1) : prod[i] = 1
        up == half /\ (sticky \/ kept[1] = 1)
        mu == MantissaUp(kept)
    IN IF x.m = << >> THEN FloatZero
       ELSE IF up THEN [m |-> mu.m, e |-> x.e + d + mu.carry]
       ELSE [m |-> kept, e |-> x.e + d]

\* Line 251 without the factor 100.
CompletionPercentage_fraction(completed, total) ==
    IF total > 0 /\ completed > 0 THEN FloatDiv(completed, total) ELSE FloatZero

\* line 251: (completed_count / total_count) * 100 if total_count > 0 else 0
CompletionPercentage(completed, total) ==
    IF total > 0
    THEN FloatMul(IF completed = 0 THEN FloatZero
                                   ELSE FloatDiv(completed, total), 100)
    ELSE FloatZero

(***************************************************************************)
(* Inputs.                                                                 *)
(***************************************************************************)
SeqsUpTo(S, n) == UNION {[1..k -> S] : k \in 0..n}

\* tiles of the grids with several rows
SpawnTiles == {"-", "X", "N"}
\* tiles of the one-row grids: the table's symbols and five outside it
Vocabulary == DOMAIN TOKEN_MAPPING \cup {"M", "Q", "T", "Z", LoneSurrogate}

\* grids of up to MaxRows rows of up to MaxCols tiles each; the rows of a grid
\* may differ in length
Rows == UNION {[1..c -> SpawnTiles] : c \in 0..MaxCols}
Grids == UNION {[1..r -> Rows] : r \in 0..MaxRows}
RowGrids == {<<row>> : row \in UNION {[1..c -> Vocabulary] : c \in 1..MaxCols}}
MapInputs ==
    {IF m THEN Level(g) ELSE Immutable(g) :
        g \in Grids \cup RowGrids, m \in BOOLEAN} \cup BadCells

Line_3_4 == <<"[", "3", ",", " ", "4", "]">>
Line_5_4 == <<"[", "5", ",", " ", "4", "]">>
Line_3 == <<"[", "3", "]">>
Line_a_b == <<"[", "a", ",", " ", "b", "]">>
BlankLine == << >>
Line_Persian3_4 == <<"[", "۳", ",", " ", "4", "]">>
PaddedMarker == <<"\t">> \o MarioPathMarker \o <<" ">>
Line_5_4_CR == Line_5_4 \o <<"\r">>
Line_10_2 == <<"[", "1", "_", "0", ",", " ", "2", "]">>
UsLine == <<US>>
Line_3_4_VT_5_4 == <<"[", VT, "3", ",", " ", "4", "]", VT>> \o Line_5_4
EmbeddedWin == <<"=", "W", "I", "N", "=">>
LowerWin == <<"w", "i", "n">>

TraceLines == {MarioPathMarker, PaddedMarker, Line_3_4, Line_5_4_CR, Line_3,
               Line_a_b, Line_10_2, BlankLine, Line_Persian3_4, UsLine,
               Line_3_4_VT_5_4}
ResultLines == {WIN, LOSE, EmbeddedWin, LowerWin, MarioPathMarker, Line_3_4,
                BlankLine}

TextsOf(lineSet, n) == {Join(ls, NL) : ls \in SeqsUpTo(lineSet, n)}

GatewayResults ==
    {GatewayNone} \cup
    {GatewayText(t) : t \in {WIN, LOSE, << >>, Join(<<LOSE, WIN>>, NL)}}

BatchLevels ==
    {Level(<<<<"N", "-">>, <<"X", "X">>>>),
     Level(<<<<"X", "-">>, <<"X">>>>), Level(<<<<LoneSurrogate, "-">>>>),
     Immutable(<<<<"-">>, <<"X">>>>), Immutable(<<<<"X">>>>)} \cup BadCells

\* a row of a dataset without 'level' column: row['level'] is never read
NoCell == BadCell("KeyError")

(***************************************************************************)
(* Initial states.                                                         *)
(***************************************************************************)
GridIdle ==
    /\ level_data = NoCell
    /\ converted = << >>
    /\ mario_start = NoPlacement
    /\ map_data = << >>
    /\ file = NotWritten

TraceIdle ==
    /\ raw_output = << >>
    /\ mario_path = Returned(<< >>)
    /\ completion_status = None

BatchIdle ==
    /\ df = << >>
    /\ has_level_column = TRUE
    /\ index = 0
    /\ completed_count = 0
    /\ total_count = 0
    /\ verdicts = << >>
    /\ attempt = 0
    /\ max_attempts = MAX_ATTEMPTS
    /\ output = GatewayNone
    /\ calls = 0
    /\ error = None
    /\ completion_percentage = FloatZero

\* analyze_levels is called on a dataset
Init ==
    /\ pc = "start"
    /\ GridIdle
    /\ TraceIdle
    /\ has_level_column \in BOOLEAN
    /\ df \in SeqsUpTo(IF has_level_column THEN BatchLevels ELSE {NoCell},
                       MaxLevels)
    /\ max_attempts = MAX_ATTEMPTS
    /\ index = 0
    /\ completed_count = 0
    /\ total_count = 0
    /\ verdicts = << >>
    /\ attempt = 0
    /\ output = GatewayNone
    /\ calls = 0
    /\ error = None
    /\ completion_percentage = FloatZero

InitMap ==
    /\ pc = "input"
    /\ level_data \in MapInputs
    /\ converted = << >>
    /\ mario_start = NoPlacement
    /\ map_data = << >>
    /\ file = NotWritten
    /\ TraceIdle
    /\ BatchIdle

InitTrace ==
    /\ pc = "input"
    /\ raw_output \in TextsOf(TraceLines, MaxLines)
    /\ mario_path = Returned(<< >>)
    /\ completion_status = None
    /\ GridIdle
    /\ BatchIdle

InitResult ==
    /\ pc = "input"
    /\ raw_output \in TextsOf(ResultLines, MaxResultLines)
    /\ mario_path = Returned(<< >>)
    /\ completion_status = None
    /\ GridIdle
    /\ BatchIdle

(***************************************************************************)
(* Actions.                                                                *)
(***************************************************************************)
\* How the file system answers generate_map: all calls succeed, or
\* os.makedirs fails (line 71), or open() fails (line 89), or open() succeeds,
\* which empties the file, and the write fails (line 90).
IoOutcomes == {"ok", "makedirs", "open", "write"}

\* generate_map, lines 68-93, on a cell of the 'level' column; ok_pc is where
\* control goes when it returns.  Every exception leaves the function: OSError
\* of makedirs (line 71); the error of literal_eval (line 75); TypeError,
\* KeyError or IndexError of find_mario_start (line 78); TypeError of line 81
\* on a value whose row cannot be replaced, mario_start being bound; OSError
\* of open (line 89); UnicodeEncodeError of write (line 90), raised before any
\* character reaches the file that open() emptied; OSError of write, which
\* leaves a part of the text in the file.
generate_map(cell, ok_pc) ==
    \E io \in IoOutcomes :
        IF io = "makedirs"
        THEN /\ pc' = "raised"
             /\ error' = "OSError"
             /\ UNCHANGED <<mario_start, map_data, file>>
        ELSE IF cell.raises # None
        THEN /\ pc' = "raised"
             /\ error' = cell.raises
             /\ UNCHANGED <<mario_start, map_data, file>>
        ELSE IF find_mario_start(ast_literal_eval(cell)) = IndexError
        THEN /\ pc' = "raised"
             /\ error' = "IndexError"
             /\ UNCHANGED <<mario_start, map_data, file>>
        ELSE IF find_mario_start(ast_literal_eval(cell)) # NoPlacement
                /\ ~cell.mutable
        THEN /\ mario_start' = find_mario_start(ast_literal_eval(cell))
             /\ pc' = "raised"
             /\ error' = "TypeError"
             /\ UNCHANGED <<map_data, file>>
        ELSE /\ mario_start' = find_mario_start(ast_literal_eval(cell))
             /\ map_data' = generate_map_rows(ast_literal_eval(cell))
             /\ IF io = "open"
                THEN /\ file' = file
                     /\ pc' = "raised"
                     /\ error' = "OSError"
                ELSE IF Unencodable(FileText(map_data'))
                THEN /\ file' = [written |-> TRUE, text |-> << >>]
                     /\ pc' = "raised"
                     /\ error' = "UnicodeEncodeError"
                ELSE IF io = "write"
                THEN /\ \E k \in 0..(Len(FileText(map_data')) - 1) :
                          file' = [written |-> TRUE,
                                   text |-> SubSeq(FileText(map_data'), 1, k)]
                     /\ pc' = "raised"
                     /\ error' = "OSError"
                ELSE /\ file' = [written |-> TRUE, text |-> FileText(map_data')]
                     /\ pc' = ok_pc
                     /\ error' = error

\* analyze_levels, lines 233-241: pd.read_csv returns the dataset or raises
\* (no file, empty file, parse error), then the column is checked
ReadDataset ==
    /\ pc = "start"
    /\ \E read \in BOOLEAN :
         IF ~read
         THEN /\ pc' = "raised"
              /\ error' = "read_csv"
              /\ UNCHANGED <<completed_count, total_count>>
         ELSE IF has_level_column
         THEN /\ completed_count' = 0
              /\ total_count' = Len(df)
              /\ pc' = "rows"
              /\ error' = error
         ELSE /\ pc' = "raised"
              /\ error' = "ValueError"
              /\ UNCHANGED <<completed_count, total_count>>
    /\ UNCHANGED <<gridVars, traceVars, df, has_level_column, index, verdicts,
                   attempt, max_attempts, output, calls, completion_percentage>>

\* lines 243-245 and 204-210: the next row is taken and check_level_completion
\* runs generate_map on it; attempt is bound (line 210) when it returns
StartLevel ==
    /\ pc = "rows"
    /\ index < total_count
    /\ level_data' = df[index + 1]
    /\ calls' = 0
    /\ generate_map(df[index + 1], "attempt")
    /\ attempt' = IF pc' = "attempt" THEN 1 ELSE attempt
    /\ UNCHANGED <<converted, traceVars, df, has_level_column, index,
                   completed_count, total_count, verdicts, max_attempts, output,
                   completion_percentage>>

\* lines 210-228, one pass of the loop, and lines 245-249 when the evaluator returns
RunAttempt ==
    /\ pc = "attempt"
    /\ \E out \in GatewayResults :
         /\ output' = out
         /\ calls' = calls + 1
         /\ completion_status' =
                IF out.none THEN completion_status ELSE parse_result(out.text)
         /\ LET verdict == AttemptVerdict(out, attempt, max_attempts)
            IN IF verdict = "retry"
               THEN /\ attempt' = attempt + 1
                    /\ pc' = "attempt"
                    /\ UNCHANGED <<index, completed_count, verdicts>>
               ELSE /\ attempt' = attempt
                    /\ pc' = "rows"
                    /\ index' = index + 1
                    /\ verdicts' = Append(verdicts, verdict = "True")
                    /\ completed_count' =
                           IF verdict = "True" THEN completed_count + 1
                                               ELSE completed_count
    /\ UNCHANGED <<gridVars, raw_output, mario_path, df, has_level_column,
                   total_count, max_attempts, error, completion_percentage>>

\* lines 251-253, after the last row
ReturnPercentage ==
    /\ pc = "rows"
    /\ index = total_count
    /\ completion_percentage' = CompletionPercentage(completed_count, total_count)
    /\ pc' = "done"
    /\ UNCHANGED <<gridVars, traceVars, df, has_level_column, index,
                   completed_count, total_count, verdicts, attempt, max_attempts,
                   output, calls, error>>

Next == ReadDataset \/ StartLevel \/ RunAttempt \/ ReturnPercentage

Spec == Init /\ [][Next]_vars

\* The loop of lines 210-228 is written for any attempt count.  Here the
\* constant of line 209 is taken from 1..MaxAttempts, the program's value
\* MAX_ATTEMPTS included, on datasets of up to MaxRetryLevels rows; the
\* steps are those of analyze_levels.
InitRetry ==
    /\ pc = "start"
    /\ GridIdle
    /\ TraceIdle
    /\ has_level_column = TRUE
    /\ df \in SeqsUpTo(BatchLevels, MaxRetryLevels)
    /\ max_attempts \in MAX_ATTEMPTS..MaxAttempts
    /\ index = 0
    /\ completed_count = 0
    /\ total_count = 0
    /\ verdicts = << >>
    /\ attempt = 0
    /\ output = GatewayNone
    /\ calls = 0
    /\ error = None
    /\ completion_percentage = FloatZero

SpecRetry == InitRetry /\ [][Next]_vars

\* convert_map_tokens applied to the input grid
CallConvert ==
    /\ pc = "input"
    /\ level_data.raises = None
    /\ converted' = convert_map_tokens(level_data.value)
    /\ pc' = "converted"
    /\ UNCHANGED <<level_data, mario_start, map_data, file, traceVars, batchVars>>

\* find_mario_start applied to the input grid
CallFind ==
    /\ pc = "input"
    /\ level_data.raises = None
    /\ IF find_mario_start(level_data.value) = IndexError
       THEN /\ pc' = "raised"
            /\ error' = "IndexError"
            /\ UNCHANGED mario_start
       ELSE /\ pc' = "located"
            /\ mario_start' = find_mario_start(level_data.value)
            /\ UNCHANGED error
    /\ UNCHANGED <<level_data, converted, map_data, file, traceVars, df,
                   has_level_column, index, completed_count, total_count,
                   verdicts, attempt, max_attempts, output, calls,
                   completion_percentage>>

\* generate_map applied to the input cell
CallGenerate ==
    /\ pc = "input"
    /\ generate_map(level_data, "generated")
    /\ UNCHANGED <<level_data, converted, traceVars, df, has_level_column, index,
                   completed_count, total_count, verdicts, attempt, max_attempts,
                   output, calls, completion_percentage>>

NextMap == CallConvert \/ CallFind \/ CallGenerate

SpecMap == InitMap /\ [][NextMap]_vars

\* parse_coordinates applied to the input text
CallParseCoordinates ==
    /\ pc = "input"
    /\ mario_path' = parse_coordinates(raw_output)
    /\ pc' = "coordinates"
    /\ UNCHANGED <<raw_output, completion_status, gridVars, batchVars>>

NextTrace == CallParseCoordinates

SpecTrace == InitTrace /\ [][NextTrace]_vars

\* parse_result applied to the input text
CallParseResult ==
    /\ pc = "input"
    /\ completion_status' = parse_result(raw_output)
    /\ pc' = "classified"
    /\ UNCHANGED <<raw_output, mario_path, gridVars, batchVars>>

NextResult == CallParseResult

SpecResult == InitResult /\ [][NextResult]_vars

(***************************************************************************)
(* Vocabulary of the properties.                                           *)
(***************************************************************************)
\* the (row, col) positions of a grid, 0-based
Cells(g) == UNION {{<<r, c>> : c \in 0..(Len(g[r + 1]) - 1)} : r \in 0..(Len(g) - 1)}
At(g, p) == g[p[1] + 1][p[2] + 1]
OpenCells(g) == {p \in Cells(g) : At(g, p) = "-"}

\* p is the open cell of the smallest column and, in it, of the largest row
IsSpawnOf(g, p) ==
    /\ p \in OpenCells(g)
    /\ \A q \in OpenCells(g) : p[2] < q[2] \/ (p[2] = q[2] /\ p[1] >= q[1])

SameShape(a, b) ==
    /\ Len(a) = Len(b)
    /\ \A i \in 1..Len(a) : Len(a[i]) = Len(b[i])

\* the target column of the mapping table of the specification
TableTarget(t) ==
    CASE t = "!" -> "Q"
      [] t \in {"(", ")"} -> "T"
      [] t = "x" -> "S"
      [] t = "N" -> "-"
      [] OTHER -> t

\* cells where the written rows differ from the translation of the source
Changed(src, written) ==
    {p \in Cells(src) : At(written, p) # TableTarget(At(src, p))}

\* sub occurs in text at position i
OccursAt(text, sub, i) ==
    /\ i + Len(sub) - 1 <= Len(text)
    /\ \A k \in 1..Len(sub) : text[i + k - 1] = sub[k]
Occurs(text, sub) == \E i \in 1..Len(text) : OccursAt(text, sub, i)

\* the path section of a list of lines: after the first marker line, up to
\* the first blank line that follows it
IsMarkerLine(l) == Strip(l) = MarioPathMarker
IsBlankLine(l) == Strip(l) = << >>
SectionStart(ls) ==
    LET ms == {i \in 1..Len(ls) : IsMarkerLine(ls[i])}
    IN IF ms = {} THEN Len(ls) + 1 ELSE CHOOSE i \in ms : \A j \in ms : i <= j
SectionEnd(ls) ==
    LET bs == {i \in 1..Len(ls) : i > SectionStart(ls) /\ IsBlankLine(ls[i])}
    IN IF bs = {} THEN Len(ls) + 1 ELSE CHOOSE i \in bs : \A j \in bs : i <= j
InSection(ls, i) == SectionStart(ls) < i /\ i < SectionEnd(ls)

\* The components of a path line: the text between the brackets at its two
\* ends, cut at every ", "
Components(l) ==
    LET inner == {<<a, b>> \in (1..(Len(l) + 1)) \X (0..Len(l)) :
                      /\ a <= b + 1
                      /\ \A k \in 1..(a - 1) : l[k] \in {"[", "]"}
                      /\ \A k \in (b + 1)..Len(l) : l[k] \in {"[", "]"}
                      /\ a <= b => (l[a] \notin {"[", "]"} /\ l[b] \notin {"[", "]"})
                      /\ a > b => a = Len(l) + 1}
        ab == CHOOSE p \in inner : TRUE
        body == SubSeq(l, ab[1], ab[2])
        cuts == {i \in 1..(Len(body) - 1) : body[i] = "," /\ body[i + 1] = " "}
        \* the cuts taken left to right: a cut at i rules out one at i + 1,
        \* which cannot be one, the character after "," being " "
        ends == cuts \cup {Len(body) + 1}
        starts == {1} \cup {i + 2 : i \in cuts}
        Nth(S, n) == CHOOSE x \in S : Cardinality({y \in S : y < x}) = n - 1
    IN [n \in 1..Cardinality(ends) |->
            SubSeq(body, Nth(starts, n), Nth(ends, n) - 1)]

\* s is the text of an integer as int() reads one: whitespace around an
\* optional sign and digits, single underscores allowed between digits
IsIntegerText(s) ==
    \E i \in 1..Len(s), j \in 1..Len(s) :
        /\ i <= j
        /\ \A k \in 1..(i - 1) : s[k] \in IntWhitespace
        /\ \A k \in (j + 1)..Len(s) : s[k] \in IntWhitespace
        /\ LET first == IF s[i] \in {"+", "-"} THEN i + 1 ELSE i
           IN /\ first <= j
              /\ s[first] \in DOMAIN DigitValue
              /\ s[j] \in DOMAIN DigitValue
              /\ \A k \in first..j : s[k] \in DOMAIN DigitValue \cup {"_"}
              /\ \A k \in first..(j - 1) : s[k] # "_" \/ s[k + 1] # "_"

\* the integer such a text denotes: the digits weighted by their place
RECURSIVE Pow10(_)
Pow10(n) == IF n = 0 THEN 1 ELSE 10 * Pow10(n - 1)
RECURSIVE SumTo(_, _)
SumTo(f, n) == IF n = 0 THEN 0 ELSE f[n] + SumTo(f, n - 1)
IntegerValue(s) ==
    LET ds == SelectSeq(s, LAMBDA c : c \in DOMAIN DigitValue)
        weighted == [k \in 1..Len(ds) |-> DigitValue[ds[k]] * Pow10(Len(ds) - k)]
        magnitude == SumTo(weighted, Len(ds))
    IN IF \E k \in 1..Len(s) : s[k] = "-" THEN -magnitude ELSE magnitude

\* a path line with two components, both integers: [x, y]
WellFormedLine(l) ==
    /\ Len(Components(l)) = 2
    /\ IsIntegerText(Components(l)[1])
    /\ IsIntegerText(Components(l)[2])
PointOfLine(l) ==
    <<IntegerValue(Components(l)[1]), IntegerValue(Components(l)[2])>>
\* a line of the section with a wrong number of components or with a
\* component that is no integer
MalformedLine(l) == ~IsBlankLine(l) /\ ~WellFormedLine(l)

\* the points of the well-formed lines of the section, in the order of the lines
RECURSIVE SectionPoints(_, _)
SectionPoints(ls, i) ==
    IF i > Len(ls) THEN << >>
    ELSE IF InSection(ls, i) /\ WellFormedLine(ls[i])
         THEN <<PointOfLine(ls[i])>> \o SectionPoints(ls, i + 1)
    ELSE SectionPoints(ls, i + 1)

\* the outcome of one attempt
Outcome(out) ==
    IF out.none THEN "InvocationFailure"
    ELSE IF parse_result(out.text) = "True" THEN "Completed"
    ELSE IF parse_result(out.text) = "False" THEN "Failed"
    ELSE "Unknown"

LastVerdict == verdicts[Len(verdicts)]

(***************************************************************************)
(* The claims.                                                             *)
(***************************************************************************)
\* C1: the rows generate_map writes are the translated grid with 'M' at the
\* cell the locator picks on the translated grid (smallest column with a '-',
\* largest row in it), and the translated grid itself when it has no '-'.
C1_SpawnOnTranslatedGrid ==
    pc = "generated" =>
        LET t == convert_map_tokens(level_data.value)
        IN IF OpenCells(t) = {} THEN map_data = t
           ELSE \E p \in OpenCells(t) :
                   /\ IsSpawnOf(t, p)
                   /\ SameShape(map_data, t)
                   /\ \A q \in Cells(t) :
                          At(map_data, q) = IF q = p THEN "M" ELSE At(t, q)

\* every row has the length of the first
IsRect(g) == \A i \in 1..Len(g) : Len(g[i]) = Len(g[1])

\* C2: on a rectangular grid find_mario_start returns the open cell of the
\* smallest column that has one and of the largest row in that column, and
\* None exactly when the grid has no open cell (zero rows and zero columns
\* included).
C2_SpawnDeterminism ==
    (pc = "located" /\ IsRect(level_data.value)) =>
        IF OpenCells(level_data.value) = {} THEN mario_start = NoPlacement
        ELSE /\ mario_start # NoPlacement
             /\ IsSpawnOf(level_data.value, mario_start)

C2_Witness ==
    /\ pc = "located"
    /\ level_data.value = <<<<"X", "-">>, <<"X", "X">>>>
    /\ mario_start = <<0, 1>>

\* C3: at most max_attempts gateway invocations per level; an invocation is
\* made only while no earlier attempt of the level was Completed; the
\* evaluator returns True exactly at a Completed attempt, and False exactly
\* when max_attempts attempts ended without one.
C3_RetryPolicy ==
    /\ calls <= max_attempts
    /\ pc = "attempt" =>
          /\ calls = attempt - 1
          /\ calls < max_attempts
          /\ calls > 0 => Outcome(output) # "Completed"
    /\ (pc \in {"rows", "done"} /\ verdicts # << >>) =>
          /\ calls >= 1
          /\ LastVerdict <=> Outcome(output) = "Completed"
          /\ ~LastVerdict <=> (calls = max_attempts /\ Outcome(output) # "Completed")

C3_Witness ==
    /\ pc = "rows"
    /\ max_attempts = 3
    /\ calls = 2
    /\ verdicts # << >>
    /\ LastVerdict
    /\ Outcome(output) = "Completed"

\* C4: analyze_levels is left by an exception only when the 'level' column is
\* missing, and then before any map is written or any gateway call is made; a
\* failure confined to one level never aborts the batch.
C4_OnlyMissingColumnAborts ==
    (pc = "raised" /\ error # "read_csv") =>
        /\ ~has_level_column
        /\ ~file.written
        /\ calls = 0
        /\ index = 0

\* C5: when the path section holds a malformed line, parse_coordinates raises
\* no error, the line adds no point, and the well-formed lines of the section
\* are all appended.
C5_MalformedLinesSkipped ==
    LET ls == SplitLines(raw_output)
    IN (pc = "coordinates" /\ \E i \in 1..Len(ls) :
                                 InSection(ls, i) /\ MalformedLine(ls[i])) =>
          /\ mario_path.raised = None
          /\ mario_path.path = SectionPoints(ls, 1)

\* C6: parse_result is True when WIN occurs anywhere in the text, False when
\* LOSE occurs and WIN does not, None when neither occurs.
C6_OutcomeClassification ==
    pc = "classified" =>
        completion_status =
            IF Occurs(raw_output, WIN) THEN "True"
            ELSE IF Occurs(raw_output, LOSE) THEN "False"
            ELSE None

C6_Witness ==
    /\ pc = "classified"
    /\ raw_output = Join(<<LOSE, MarioPathMarker, Line_3_4, WIN>>, NL)
    /\ completion_status = "True"

\* the double x is at most 2^-40 away from the fraction num / den, den > 0
NearFraction(x, num, den) ==
    LET scaled == MulBits(x.m, den)
        exact == ShiftBits(NatBits(num), -x.e)
        slack == ShiftBits(NatBits(den), -x.e - 40)
    IN IF x = FloatZero THEN num = 0
       ELSE /\ x.e <= -40
            /\ LeqBits(scaled, AddBits(exact, slack, 0))
            /\ LeqBits(exact, AddBits(scaled, slack, 0))

\* the double x is at most the integer n
FloatLeq(x, n) == x = FloatZero \/ (x.e <= 0 /\ LeqBits(x.m, ShiftBits(NatBits(n), -x.e)))

\* the double of an integer n > 0
FloatOfInt(n) == [m |-> ShiftBits(NatBits(n), 53 - Len(NatBits(n))),
                  e |-> Len(NatBits(n)) - 53]

\* C7: 0 <= completed_count <= total_count throughout; the value returned is
\* completed / total * 100, to the precision of a double, with total the
\* number of rows and completed the number of True verdicts; it is 0 for an
\* empty dataset and lies in 0..100.
C7_BatchAggregation ==
    /\ 0 <= completed_count
    /\ completed_count <= total_count
    /\ pc = "done" =>
          /\ total_count = Len(df)
          /\ Len(verdicts) = total_count
          /\ completed_count = Cardinality({i \in 1..Len(verdicts) : verdicts[i]})
          /\ total_count = 0 => completion_percentage = FloatZero
          /\ total_count > 0 =>
                 NearFraction(completion_percentage, 100 * completed_count,
                              total_count)
          /\ FloatLeq(completion_percentage, 100)

C7_Witness ==
    /\ pc = "done"
    /\ verdicts = <<TRUE, FALSE, TRUE, TRUE>>
    /\ completion_percentage = FloatOfInt(75)

\* C8: convert_map_tokens keeps the number of rows and the length of each row,
\* and every cell holds the table's target for the source cell, a symbol
\* outside the table being kept.
C8_TokenTranslation ==
    pc = "converted" =>
        /\ SameShape(converted, level_data.value)
        /\ \A p \in Cells(level_data.value) :
               At(converted, p) = TableTarget(At(level_data.value, p))

C8_Witness ==
    /\ pc = "converted"
    /\ level_data.value = <<<<"!", "Z">>>>
    /\ converted = <<<<"Q", "Z">>>>

\* C9: parse_coordinates returns the points of the well-formed lines that
\* stand after the first marker line and before the first blank line that
\* follows it, in the order of the lines, and nothing else.
C9_TwoStateScan ==
    pc = "coordinates" =>
        /\ mario_path.raised = None
        /\ mario_path.path = SectionPoints(SplitLines(raw_output), 1)

\* The scan of C9 on the runs in which parse_coordinates returns.
ReturnsTwoStateScan ==
    (pc = "coordinates" /\ mario_path.raised = None) =>
        mario_path.path = SectionPoints(SplitLines(raw_output), 1)

\* parse_coordinates raises exactly when a line of the section has two
\* components of which one is no integer.
RaisesOnNonIntegerPair ==
    LET ls == SplitLines(raw_output)
    IN pc = "coordinates" =>
          (mario_path.raised # None <=>
              \E i \in 1..Len(ls) : /\ InSection(ls, i)
                                    /\ Len(Components(ls[i])) = 2
                                    /\ ~WellFormedLine(ls[i]))

\* C10: the written map has the shape of the source grid; it differs from the
\* translation of the source in at most one cell, which holds 'M' where the
\* translation is '-'; it differs in the spawn cell when one was found and
\* nowhere when none was, and the map is written in both cases.
C10_SpawnFrame ==
    pc = "generated" =>
        LET src == level_data.value
        IN /\ file.written
           /\ (map_data # << >> => SplitLines(file.text) = map_data)
           /\ SameShape(map_data, src)
           /\ Cardinality(Changed(src, map_data)) <= 1
           /\ \A p \in Changed(src, map_data) :
                  At(map_data, p) = "M" /\ TableTarget(At(src, p)) = "-"
           /\ Changed(src, map_data) =
                  IF mario_start = NoPlacement THEN {} ELSE {mario_start}

C10_Witness ==
    /\ pc = "generated"
    /\ level_data.value = <<<<"N", "-">>, <<"X", "X">>>>
    /\ mario_start = <<0, 1>>
    /\ map_data = <<<<"-", "M">>, <<"X", "X">>>>

=============================================================================
